---- MODULE Spec2Model ----
(***************************************************************************)
(* A model of chunkText (app/src/lib/chunk.ts): the text chunker of the    *)
(* import flow.  One behaviour is one invocation: Init is the state after  *)
(* the two option defaults (lines 7-8) have been taken, and each action is *)
(* one step of the function body.                                         *)
(*                                                                         *)
(* A string is a sequence of characters; a character is one of the names   *)
(* of Alphabet.  "a" stands for any character that is neither whitespace   *)
(* nor touched by the normalisation.                                       *)
(*                                                                         *)
(* Further parts, each with a specification of its own over the same       *)
(* variables: two interleaved invocations of chunkText (PairSpec), the     *)
(* chat page (ChatSpec, ChatLiveSpec), ApiClient.request (ApiSpec), the    *)
(* /db/rag-settings route with DBClient.query (DbSpec) and the import page *)
(* (ImportSpec, ImportLiveSpec).                                           *)
(***************************************************************************)
EXTENDS Integers, Sequences, FiniteSets, TLC

VARIABLES
    text,        \* the text argument ("" is <<>>)
    textIsNull,  \* TRUE when the argument is null or undefined
    options,     \* the options argument: each field <<>> (omitted) or <<n>>
    size,        \* const size    (line 7)
    overlap,     \* let overlap   (lines 8, 12, 13)
    normalized,  \* const normalized (lines 15-19)
    chunks,      \* const chunks  (line 21)
    start,       \* let start     (line 22)
    windows,     \* history: the [start, end) pairs the loop has sliced
    result,      \* the returned array
    pc,          \* position in the function body
    \* two invocations of chunkText whose steps interleave
    calls,       \* per invocation: its arguments, locals, result and position
    arrays,      \* the arrays allocated by line 21, by owner
    \* the chat page (ChatUI) and the store behind it
    chats,        \* useState chats: the local chats, each with its messages
    activeChatId, \* useState activeChatId (NoChat is null)
    inputValue,   \* useState inputValue
    isLoading,    \* useState isLoading
    error,        \* useState error (NoError is null)
    dbChats,      \* the ids of the rows of table chats
    dbMessages,   \* the rows of table messages, by chat, in created_at order
    send,         \* the handleSendMessage call: its position and its closure
    loads,        \* the loadMessages calls in flight
    sendCount,    \* handleSendMessage calls started
    clickCount,   \* chat selections and new-chat clicks made
    \* one call of ApiClient.request
    apiCopy,      \* which of the copies of the class the call runs
    response,     \* const response: <<>> until fetch resolves, then <<r>>
    errorBody,    \* const error: <<>> until the error body is read, then <<b>>
    settled,      \* how the call ended: pending, returned or thrown
    apiPc,        \* position in request
    \* the /db/rag-settings route, its table and the DBClient calls to it
    rag_settings, \* the rows of table rag_settings, in created_at order
    requests,     \* the DBClient.query calls issued, each with its handler's state
    issued,       \* how many calls have been issued
    \* the import page (ImportPage) and the upsert endpoint behind it
    parsedFiles,    \* useState parsedFiles
    uploadStatuses, \* useState uploadStatuses: by file name
    isUploading,    \* useState isUploading
    uploadedFiles,  \* useState uploadedFiles: a set of file names
    collectionName, \* useState collectionName
    importError,    \* useState error of the import page ("null" is null)
    successMessage, \* useState successMessage ("null" is null)
    drop,           \* the onDrop call that is parsing, with its closure
    upload,         \* the handleUpload call, with its closure and its history
    upserts,        \* history: the upsert requests issued, with their results
    now,            \* Date.now()
    dropCount,      \* onDrop calls made
    uploadCount     \* handleUpload calls made

chunkVars == <<text, textIsNull, options, size, overlap, normalized, chunks,
               start, windows, result, pc>>
pairVars == <<calls, arrays>>
chatVars == <<chats, activeChatId, inputValue, isLoading, error, dbChats,
              dbMessages, send, loads, sendCount, clickCount>>

apiVars == <<apiCopy, response, errorBody, settled, apiPc>>

dbVars == <<rag_settings, requests, issued>>

importVars == <<parsedFiles, uploadStatuses, isUploading, uploadedFiles,
                collectionName, importError, successMessage, drop, upload,
                upserts, now, dropCount, uploadCount>>

vars == <<chunkVars, pairVars, chatVars, apiVars, dbVars, importVars>>

\* what a single invocation of chunkText leaves alone
notChunkVars == <<pairVars, chatVars, apiVars, dbVars, importVars>>
\* what the two interleaved invocations leave alone
notPairVars == <<chunkVars, chatVars, apiVars, dbVars, importVars>>
\* what the chat page leaves alone
notChatVars == <<chunkVars, pairVars, apiVars, dbVars, importVars>>
\* what a call of ApiClient.request leaves alone
notApiVars == <<chunkVars, pairVars, chatVars, dbVars, importVars>>
\* what the /db/rag-settings route and its callers leave alone
notDbVars == <<chunkVars, pairVars, chatVars, apiVars, importVars>>
\* what the import page leaves alone
notImportVars == <<chunkVars, pairVars, chatVars, apiVars, dbVars>>

----------------------------------------------------------------------------
(* Bounds of the model *)

\* longest input text over the full alphabet
MaxLen == 3
\* longest input text over the two-character alphabet {letter, space}
MaxLongLen == 6
\* longest input text over the line-ending alphabet {letter, CR, LF}
MaxLineLen == 5
\* largest size and overlap passed in options
MaxSize == 4
\* longest text, and largest size, of two interleaved invocations
MaxPairLen == 2
MaxPairSize == 2
\* handleSendMessage calls, and chat selections or new-chat clicks, in a run
MaxSends == 2
MaxClicks == 2

(* Program constants *)

DefaultSize == 1200
DefaultOverlap == 200

----------------------------------------------------------------------------
(* Characters and strings *)

Alphabet == {"a", "SP", "LF", "CR", "TAB", "NBSP", "FF", "VT"}
CoreAlphabet == {"a", "SP"}
LineAlphabet == {"a", "CR", "LF"}

SeqsUpTo(S, n) == UNION {[1..k -> S] : k \in 0..n}

Texts ==
    SeqsUpTo(Alphabet, MaxLen) \cup SeqsUpTo(CoreAlphabet, MaxLongLen)
        \cup SeqsUpTo(LineAlphabet, MaxLineLen)

\* an option is omitted (<<>>) or an integer, negative and zero included
OptionValues == {<<>>} \cup {<<n>> : n \in -1..MaxSize}

Min(a, b) == IF a < b THEN a ELSE b
Max(a, b) == IF a > b THEN a ELSE b

\* Nullish written with ||, which also replaces a 0
Nullish_Or(x, d) == IF x = <<>> \/ x[1] = 0 THEN d ELSE x[1]

\* x ?? d
Nullish(x, d) == IF x = <<>> THEN d ELSE x[1]

\* Slice with the end taken as inclusive of one fewer character
Slice_ShortEnd(s, from, to) == SubSeq(s, from + 1, to - 1)

\* s.slice(from, to) for 0 <= from <= to <= s.length (0-based, end exclusive)
Slice(s, from, to) == SubSeq(s, from + 1, to)

\* String.prototype.replace(/c/g, to) for a one-character pattern
ReplaceChar(s, from, to) == [i \in 1..Len(s) |-> IF s[i] = from THEN to ELSE s[i]]

\* .replace(/\r\n/g, "\n"): leftmost matches, scanned left to right
RECURSIVE ReplaceCRLF(_)
ReplaceCRLF(s) ==
    IF s = <<>> THEN <<>>
    ELSE IF Len(s) >= 2 /\ s[1] = "CR" /\ s[2] = "LF"
         THEN <<"LF">> \o ReplaceCRLF(SubSeq(s, 3, Len(s)))
         ELSE <<s[1]>> \o ReplaceCRLF(Tail(s))

\* the character class [ \f\v]
SpaceClass == {"SP", "FF", "VT"}

\* s without its longest prefix of characters of cls
RECURSIVE DropWhile(_, _)
DropWhile(s, cls) ==
    IF s # <<>> /\ s[1] \in cls THEN DropWhile(Tail(s), cls) ELSE s

\* .replace(/[ \f\v]+/g, " "): each greedy match becomes one space
RECURSIVE CollapseSpaces(_)
CollapseSpaces(s) ==
    IF s = <<>> THEN <<>>
    ELSE IF s[1] \in SpaceClass
         THEN <<"SP">> \o CollapseSpaces(DropWhile(s, SpaceClass))
         ELSE <<s[1]>> \o CollapseSpaces(Tail(s))

\* Normalize with the collapse done before the tab and NBSP replacements
Normalize_CollapseFirst(t) ==
    ReplaceChar(ReplaceChar(CollapseSpaces(ReplaceCRLF(t)), "TAB", "SP"), "NBSP", "SP")

Normalize(t) ==
    CollapseSpaces(ReplaceChar(ReplaceChar(ReplaceCRLF(t), "TAB", "SP"), "NBSP", "SP"))

\* what String.prototype.trim removes: WhiteSpace and LineTerminator
TrimClass == {"SP", "LF", "CR", "TAB", "NBSP", "FF", "VT"}

Reverse(s) == [i \in 1..Len(s) |-> s[Len(s) + 1 - i]]

\* Trim that only removes the leading whitespace
Trim_LeadingOnly(s) == DropWhile(s, TrimClass)

\* slice.trim()
Trim(s) == Reverse(DropWhile(Reverse(DropWhile(s, TrimClass)), TrimClass))

\* FilterBoolean that keeps everything
FilterBoolean_KeepAll(cs) == cs

\* chunks.filter(Boolean): the empty string is the only falsy string
FilterBoolean(cs) == SelectSeq(cs, LAMBDA c : c # <<>>)

\* IsFalsy that only tests for null/undefined
IsFalsy_NullOnly(t, isNull) == isNull

\* !text
IsFalsy(t, isNull) == isNull \/ t = <<>>

\* ClampNegative that takes the absolute value
ClampNegative_Abs(ov) == IF ov < 0 THEN 0 - ov ELSE ov

\* ClampTooLarge that falls back to half the size
ClampTooLarge_Half(ov, sz) == IF ov >= sz THEN sz \div 2 ELSE ov

\* ClampNegative that leaves a negative overlap as it is
ClampNegative_None(ov) == ov

\* ClampTooLarge with > in place of >=
ClampTooLarge_Strict(ov, sz) == IF ov > sz THEN sz \div 4 ELSE ov

\* lines 12-13, the two clamp steps in order
ClampNegative(ov) == IF ov < 0 THEN 0 ELSE ov
ClampTooLarge(ov, sz) == IF ov >= sz THEN sz \div 4 ELSE ov
ClampOverlap(ov, sz) == ClampTooLarge(ClampNegative(ov), sz)

\* WindowEnd that takes one character too many
WindowEnd_OneMore(st, sz, len) == Min(st + sz + 1, len)

\* line 25
WindowEnd(st, sz, len) == Min(st + sz, len)

\* IsFinal that already stops one character before the end
IsFinal_Early(end, len) == end >= len - 1

\* line 28: the test of the break
IsFinal(end, len) == end = len

\* NextStart that forgets the overlap
NextStart_NoOverlap(end, ov) == Max(0, end)

\* NextStart that is off by one
NextStart_OffByOne(end, ov) == Max(0, end - ov + 1)

\* NextStart that steps back one character too many
NextStart_OneBack(end, ov) == Max(0, end - ov - 1)

\* line 29
NextStart(end, ov) == Max(0, end - ov)

\* lines 24-30 as a function: the chunks pushed from cursor st on, after acc
RECURSIVE WindowLoop(_, _, _, _, _)
WindowLoop(n, sz, o, st, acc) ==
    IF ~(st < Len(n)) THEN acc
    ELSE LET end == WindowEnd(st, sz, Len(n))
             pushed == Append(acc, Trim(Slice(n, st, end)))
         IN IF IsFinal(end, Len(n)) THEN pushed
            ELSE WindowLoop(n, sz, o, NextStart(end, o), pushed)

\* lines 10-32 as a function of the text and the defaulted size and overlap
ChunkTextBody(t, isNull, sz, ov) ==
    IF IsFalsy(t, isNull) THEN <<>>
    ELSE IF sz <= 0 THEN <<t>>
    ELSE FilterBoolean(WindowLoop(Normalize(t), sz, ClampOverlap(ov, sz), 0, <<>>))

\* chunkText(text, options) as a function of its arguments
chunkText(t, isNull, opts) ==
    ChunkTextBody(t, isNull, Nullish(opts.size, DefaultSize),
                  Nullish(opts.overlap, DefaultOverlap))

----------------------------------------------------------------------------
(* The invocation *)

\* the parts of the state a specification does not use
ChunkIdle ==
    /\ text = <<>>
    /\ textIsNull = FALSE
    /\ options = [size |-> <<>>, overlap |-> <<>>]
    /\ size = 0
    /\ overlap = 0
    /\ normalized = <<>>
    /\ chunks = <<>>
    /\ start = 0
    /\ windows = <<>>
    /\ result = <<>>
    /\ pc = "idle"

PairIdle ==
    /\ calls = <<>>
    /\ arrays = <<>>

ChatIdle ==
    /\ chats = <<>>
    /\ activeChatId = 0
    /\ inputValue = ""
    /\ isLoading = FALSE
    /\ error = ""
    /\ dbChats = {}
    /\ dbMessages = <<>>
    /\ send = <<>>
    /\ loads = {}
    /\ sendCount = 0
    /\ clickCount = 0

ApiIdle ==
    /\ apiCopy = "none"
    /\ response = <<>>
    /\ errorBody = <<>>
    /\ settled = <<>>
    /\ apiPc = "unused"

DbIdle ==
    /\ rag_settings = <<>>
    /\ requests = <<>>
    /\ issued = 0

ImportIdle ==
    /\ parsedFiles = <<>>
    /\ uploadStatuses = <<>>
    /\ isUploading = FALSE
    /\ uploadedFiles = {}
    /\ collectionName = ""
    /\ importError = ""
    /\ successMessage = ""
    /\ drop = <<>>
    /\ upload = <<>>
    /\ upserts = <<>>
    /\ now = 0
    /\ dropCount = 0
    /\ uploadCount = 0

Init ==
    /\ text \in Texts
    /\ textIsNull \in BOOLEAN
    /\ textIsNull => text = <<>>
    /\ options \in [size : OptionValues, overlap : OptionValues]
    /\ size = Nullish(options.size, DefaultSize)
    /\ overlap = Nullish(options.overlap, DefaultOverlap)
    /\ normalized = <<>>
    /\ chunks = <<>>
    /\ start = 0
    /\ windows = <<>>
    /\ result = <<>>
    /\ pc = "entry"
    /\ PairIdle
    /\ ChatIdle
    /\ ApiIdle
    /\ DbIdle
    /\ ImportIdle

\* line 10: if (!text) return []
ReturnEmpty ==
    /\ pc = "entry"
    /\ IsFalsy(text, textIsNull)
    /\ result' = <<>>
    /\ pc' = "done"
    /\ UNCHANGED <<text, textIsNull, options, size, overlap, normalized,
                   chunks, start, windows>>
    /\ UNCHANGED notChunkVars

\* ReturnText that trims the text it passes through
ReturnText_Trimmed ==
    /\ pc = "entry"
    /\ ~IsFalsy(text, textIsNull)
    /\ size <= 0
    /\ result' = <<Trim(text)>>
    /\ pc' = "done"
    /\ UNCHANGED <<text, textIsNull, options, size, overlap, normalized,
                   chunks, start, windows>>
    /\ UNCHANGED notChunkVars

\* line 11: if (size <= 0) return [text]
ReturnText ==
    /\ pc = "entry"
    /\ ~IsFalsy(text, textIsNull)
    /\ size <= 0
    /\ result' = <<text>>
    /\ pc' = "done"
    /\ UNCHANGED <<text, textIsNull, options, size, overlap, normalized,
                   chunks, start, windows>>
    /\ UNCHANGED notChunkVars

\* lines 12-22: clamp the overlap, normalise, set up the loop
Prepare ==
    /\ pc = "entry"
    /\ ~IsFalsy(text, textIsNull)
    /\ ~(size <= 0)
    /\ overlap' = ClampOverlap(overlap, size)
    /\ normalized' = Normalize(text)
    /\ chunks' = <<>>
    /\ start' = 0
    /\ pc' = "loop"
    /\ UNCHANGED <<text, textIsNull, options, size, windows, result>>
    /\ UNCHANGED notChunkVars

\* lines 24-29: one iteration of the while loop
LoopStep ==
    /\ pc = "loop"
    /\ start < Len(normalized)
    /\ LET end == WindowEnd(start, size, Len(normalized))
           slice == Slice(normalized, start, end)
       IN /\ chunks' = Append(chunks, Trim(slice))
          /\ windows' = Append(windows, [start |-> start, end |-> end])
          /\ IF IsFinal(end, Len(normalized))
             THEN /\ pc' = "return"
                  /\ start' = start
             ELSE /\ pc' = "loop"
                  /\ start' = NextStart(end, overlap)
    /\ UNCHANGED <<text, textIsNull, options, size, overlap, normalized, result>>
    /\ UNCHANGED notChunkVars

\* line 32, reached by the break or by the loop condition turning false
Return ==
    /\ pc = "return" \/ (pc = "loop" /\ ~(start < Len(normalized)))
    /\ result' = FilterBoolean(chunks)
    /\ pc' = "done"
    /\ UNCHANGED <<text, textIsNull, options, size, overlap, normalized,
                   chunks, start, windows>>
    /\ UNCHANGED notChunkVars

Next == ReturnEmpty \/ ReturnText \/ Prepare \/ LoopStep \/ Return

Spec == Init /\ [][Next]_vars

----------------------------------------------------------------------------
(* Two invocations of chunkText, their steps interleaved.  Every local of    *)
(* the function lives in the invocation's own record; the array of line 21   *)
(* lives in arrays, under the owner the allocation gives it.                 *)

Calls == {1, 2}

PairTexts == SeqsUpTo(CoreAlphabet, MaxPairLen)
PairOptions == [size : {<<n>> : n \in 0..MaxPairSize}, overlap : {<<>>, <<1>>}]

\* ArrayOwner with one array for all invocations (a module-level chunks)
ArrayOwner_Shared(i) == 1

\* line 21: const chunks = [] allocates an array of the invocation's own
ArrayOwner(i) == i

PairInit ==
    /\ calls \in [Calls -> [text : PairTexts, options : PairOptions,
                            size : {0}, overlap : {0}, normalized : {<<>>},
                            start : {0}, result : {<<>>}, pc : {"entry"}]]
    /\ \A i \in Calls :
          /\ calls[i].size = 0
          /\ calls[i].overlap = 0
    /\ arrays = [i \in Calls |-> <<>>]
    /\ ChunkIdle
    /\ ChatIdle
    /\ ApiIdle
    /\ DbIdle
    /\ ImportIdle

\* lines 7-8 of invocation i
CallEnter(i) ==
    /\ calls[i].pc = "entry"
    /\ calls' = [calls EXCEPT
          ![i].size = Nullish(calls[i].options.size, DefaultSize),
          ![i].overlap = Nullish(calls[i].options.overlap, DefaultOverlap),
          ![i].pc = "guard"]
    /\ UNCHANGED <<arrays, notPairVars>>

\* line 10 of invocation i
CallReturnEmpty(i) ==
    /\ calls[i].pc = "guard"
    /\ IsFalsy(calls[i].text, FALSE)
    /\ calls' = [calls EXCEPT ![i].result = <<>>, ![i].pc = "done"]
    /\ UNCHANGED <<arrays, notPairVars>>

\* line 11 of invocation i
CallReturnText(i) ==
    /\ calls[i].pc = "guard"
    /\ ~IsFalsy(calls[i].text, FALSE)
    /\ calls[i].size <= 0
    /\ calls' = [calls EXCEPT ![i].result = <<calls[i].text>>, ![i].pc = "done"]
    /\ UNCHANGED <<arrays, notPairVars>>

\* lines 12-22 of invocation i
CallPrepare(i) ==
    /\ calls[i].pc = "guard"
    /\ ~IsFalsy(calls[i].text, FALSE)
    /\ ~(calls[i].size <= 0)
    /\ calls' = [calls EXCEPT
          ![i].overlap = ClampOverlap(calls[i].overlap, calls[i].size),
          ![i].normalized = Normalize(calls[i].text),
          ![i].start = 0,
          ![i].pc = "loop"]
    /\ arrays' = [arrays EXCEPT ![ArrayOwner(i)] = <<>>]
    /\ UNCHANGED notPairVars

\* lines 24-29 of invocation i: one iteration
CallLoopStep(i) ==
    /\ calls[i].pc = "loop"
    /\ calls[i].start < Len(calls[i].normalized)
    /\ LET c == calls[i]
           end == WindowEnd(c.start, c.size, Len(c.normalized))
           slice == Slice(c.normalized, c.start, end)
       IN /\ arrays' = [arrays EXCEPT
                ![ArrayOwner(i)] = Append(arrays[ArrayOwner(i)], Trim(slice))]
          /\ calls' = IF IsFinal(end, Len(c.normalized))
                      THEN [calls EXCEPT ![i].pc = "return"]
                      ELSE [calls EXCEPT ![i].start = NextStart(end, c.overlap)]
    /\ UNCHANGED notPairVars

\* line 32 of invocation i
CallReturn(i) ==
    /\ \/ calls[i].pc = "return"
       \/ (calls[i].pc = "loop" /\ ~(calls[i].start < Len(calls[i].normalized)))
    /\ calls' = [calls EXCEPT
          ![i].result = FilterBoolean(arrays[ArrayOwner(i)]),
          ![i].pc = "done"]
    /\ UNCHANGED <<arrays, notPairVars>>

PairNext ==
    \E i \in Calls :
        \/ CallEnter(i)
        \/ CallReturnEmpty(i)
        \/ CallReturnText(i)
        \/ CallPrepare(i)
        \/ CallLoopStep(i)
        \/ CallReturn(i)

PairSpec == PairInit /\ [][PairNext]_vars

----------------------------------------------------------------------------
(* The chat page: ChatUI.  A React state setter acts at once; a handler      *)
(* reads the state variables it closed over when it was called (send holds   *)
(* the closure of the running handleSendMessage); every await is a step of   *)
(* its own, so the steps of handleSendMessage, of the loadMessages calls and *)
(* the user's clicks interleave.  generateTitleAsync only sets a title and   *)
(* is left out.                                                              *)

\* activeChatId === null, error === null
NoChat == 0
NoError == "null"

ChatIds == 1..(1 + MaxSends)

\* the values of the input box: empty, blank, a text
InputValues == {"", " ", "hi"}

\* inputValue.trim()
TrimInput(v) == IF v = " " THEN "" ELSE v

\* a message: its role and the send it belongs to (0: stored before the run)
Message(role, n) == [role |-> role, n |-> n]

\* the send handler when it is not running
IdleSend(outcome, failedAt, before, disturbed) ==
    [pc |-> "idle", activeChatId |-> NoChat, chats |-> <<>>,
     chatIdToUse |-> NoChat, isNewChat |-> FALSE, n |-> 0,
     outcome |-> outcome, failedAt |-> failedAt, before |-> before,
     disturbed |-> disturbed]

\* prevChats.map(chat => chat.id === id ? {...chat, messages: ...} : chat),
\* newMessages[i] being the new list worked out for the i-th chat
MapMessages(cs, id, newMessages) ==
    [i \in 1..Len(cs) |->
        IF cs[i].id = id THEN [cs[i] EXCEPT !.messages = newMessages[i]]
        ELSE cs[i]]

\* lines 344-353 and 417-426: append a message to the chat with this id
AppendMessage(cs, id, msg) ==
    MapMessages(cs, id, [i \in 1..Len(cs) |-> Append(cs[i].messages, msg)])

\* messages.slice(0, -1)
DropLast(ms) == SubSeq(ms, 1, Len(ms) - 1)

\* lines 437-448: the rollback of the catch block, on the closure's activeChatId
Rollback(cs, closedActiveChatId) ==
    IF closedActiveChatId # NoChat
    THEN MapMessages(cs, closedActiveChatId,
                     [i \in 1..Len(cs) |-> DropLast(cs[i].messages)])
    ELSE cs

\* lines 178-182: replace the messages of the chat with this id
SetMessages(cs, id, msgs) == MapMessages(cs, id, [i \in 1..Len(cs) |-> msgs])

\* the effect of lines 106-110 when activeChatId goes from old to new
EffectLoads(old, new) ==
    IF new # old /\ new # NoChat
    THEN {[chatId |-> new, phase |-> "fetch", data |-> <<>>]}
    ELSE {}

\* The page after mount and loadChats (lines 125-155): one stored chat with
\* an earlier exchange, listed locally with messages: [].
ChatInit ==
    /\ chats = <<[id |-> 1, messages |-> <<>>]>>
    /\ activeChatId = NoChat
    /\ inputValue = ""
    /\ isLoading = FALSE
    /\ error = NoError
    /\ dbChats = {1}
    /\ dbMessages = [c \in ChatIds |->
                        IF c = 1 THEN <<Message("user", 0), Message("assistant", 0)>>
                        ELSE <<>>]
    /\ send = IdleSend("none", "none", <<>>, FALSE)
    /\ loads = {}
    /\ sendCount = 0
    /\ clickCount = 0
    /\ ChunkIdle
    /\ PairIdle
    /\ ApiIdle
    /\ DbIdle
    /\ ImportIdle

\* line 590: onChange of the input box (disabled while isLoading)
TypeInput ==
    /\ ~isLoading
    /\ \E v \in InputValues : inputValue' = v
    /\ UNCHANGED <<chats, activeChatId, isLoading, error, dbChats, dbMessages,
                   send, loads, sendCount, clickCount>>
    /\ UNCHANGED notChatVars

\* line 534: a click on a chat of the list
SelectChat ==
    /\ clickCount < MaxClicks
    /\ \E i \in 1..Len(chats) :
          /\ activeChatId' = chats[i].id
          /\ loads' = loads \cup EffectLoads(activeChatId, chats[i].id)
    /\ clickCount' = clickCount + 1
    /\ UNCHANGED <<chats, inputValue, isLoading, error, dbChats, dbMessages,
                   send, sendCount>>
    /\ UNCHANGED notChatVars

\* lines 243-247
handleNewChat ==
    /\ clickCount < MaxClicks
    /\ activeChatId' = NoChat
    /\ inputValue' = ""
    /\ error' = NoError
    /\ clickCount' = clickCount + 1
    /\ UNCHANGED <<chats, isLoading, dbChats, dbMessages, send, loads, sendCount>>
    /\ UNCHANGED notChatVars

\* lines 159-168: the select of loadMessages reaches the store
loadMessagesFetch ==
    \E l \in loads :
        /\ l.phase = "fetch"
        /\ \E ok \in BOOLEAN :
              IF ok
              THEN /\ loads' = (loads \ {l}) \cup
                          {[l EXCEPT !.phase = "apply", !.data = dbMessages[l.chatId]]}
                   /\ error' = error
              ELSE /\ loads' = loads \ {l}
                   /\ error' = "Failed to load messages"
        /\ UNCHANGED <<chats, activeChatId, inputValue, isLoading, dbChats,
                       dbMessages, send, sendCount, clickCount>>
        /\ UNCHANGED notChatVars

\* lines 170-182: loadMessages continues with the rows it was given
loadMessagesApply ==
    \E l \in loads :
        /\ l.phase = "apply"
        /\ chats' = SetMessages(chats, l.chatId, l.data)
        /\ loads' = loads \ {l}
        /\ send' = [send EXCEPT !.disturbed = TRUE]
        /\ UNCHANGED <<activeChatId, inputValue, isLoading, error, dbChats,
                       dbMessages, sendCount, clickCount>>
        /\ UNCHANGED notChatVars

\* line 286: if (!inputValue.trim() || isLoading) return
LoadingGuard(input, loading) == TrimInput(input) = "" \/ loading

\* line 286: handleSendMessage called with a blank input or while loading
SendIgnored ==
    /\ LoadingGuard(inputValue, isLoading)
    /\ UNCHANGED chatVars
    /\ UNCHANGED notChatVars

\* lines 286-300: handleSendMessage up to its first await
SendStart ==
    /\ sendCount < MaxSends
    /\ ~LoadingGuard(inputValue, isLoading)
    /\ inputValue' = ""
    /\ isLoading' = TRUE
    /\ error' = NoError
    /\ sendCount' = sendCount + 1
    /\ send' = [pc |-> IF activeChatId = NoChat THEN "createChat" ELSE "saveUser",
                activeChatId |-> activeChatId, chats |-> chats,
                chatIdToUse |-> activeChatId, isNewChat |-> FALSE,
                n |-> sendCount + 1,
                outcome |-> "running", failedAt |-> "none",
                before |-> chats, disturbed |-> FALSE]
    /\ UNCHANGED <<chats, activeChatId, dbChats, dbMessages, loads, clickCount>>
    /\ UNCHANGED notChatVars

\* SendCatch without the finally block
SendCatch_KeepLoading(at) ==
    /\ error' = "Failed to send message"
    /\ chats' = Rollback(chats, send.activeChatId)
    /\ isLoading' = isLoading
    /\ send' = IdleSend("failed", at, send.before, send.disturbed)

\* lines 433-451: the catch and finally blocks, after a failure at `at`
SendCatch(at) ==
    /\ error' = "Failed to send message"
    /\ chats' = Rollback(chats, send.activeChatId)
    /\ isLoading' = FALSE
    /\ send' = IdleSend("failed", at, send.before, send.disturbed)

\* lines 300-325: the insert into chats answers
SendCreateChat ==
    /\ send.pc = "createChat"
    /\ \E ok \in BOOLEAN :
          IF ok
          THEN LET newId == Cardinality(dbChats) + 1
               IN /\ dbChats' = dbChats \cup {newId}
                  /\ chats' = <<[id |-> newId, messages |-> <<>>]>> \o send.chats
                  /\ activeChatId' = newId
                  /\ loads' = loads \cup EffectLoads(activeChatId, newId)
                  /\ send' = [send EXCEPT !.pc = "saveUser", !.chatIdToUse = newId,
                                          !.isNewChat = TRUE]
                  /\ UNCHANGED <<isLoading, error>>
          ELSE /\ SendCatch("createChat")
               /\ UNCHANGED <<activeChatId, dbChats, loads>>
    /\ UNCHANGED <<inputValue, dbMessages, sendCount, clickCount>>
    /\ UNCHANGED notChatVars

\* lines 189-207 for the user message: the insert reaches the store
SendSaveUserRequest ==
    /\ send.pc = "saveUser"
    /\ \E ok \in BOOLEAN :
          IF ok
          THEN /\ dbMessages' = [dbMessages EXCEPT ![send.chatIdToUse] =
                                    Append(@, Message("user", send.n))]
               /\ send' = [send EXCEPT !.pc = "saveUserSaved"]
          ELSE /\ dbMessages' = dbMessages
               /\ send' = [send EXCEPT !.pc = "saveUserFailed"]
    /\ UNCHANGED <<chats, activeChatId, inputValue, isLoading, error, dbChats,
                   loads, sendCount, clickCount>>
    /\ UNCHANGED notChatVars

\* lines 328-372: saveMessage has answered; the optimistic update, or the throw
SendSaveUserReply ==
    /\ send.pc \in {"saveUserSaved", "saveUserFailed"}
    /\ IF send.pc = "saveUserSaved"
       THEN /\ chats' = AppendMessage(chats, send.chatIdToUse, Message("user", send.n))
            /\ send' = [send EXCEPT !.pc = "ragConfig"]
            /\ UNCHANGED <<isLoading, error>>
       ELSE SendCatch("saveUser")
    /\ UNCHANGED <<activeChatId, inputValue, dbChats, dbMessages, loads,
                   sendCount, clickCount>>
    /\ UNCHANGED notChatVars

\* lines 370-391: the select on rag_settings answers (its failure is swallowed)
SendRagConfig ==
    /\ send.pc = "ragConfig"
    /\ send' = [send EXCEPT !.pc = "chat"]
    /\ UNCHANGED <<chats, activeChatId, inputValue, isLoading, error, dbChats,
                   dbMessages, loads, sendCount, clickCount>>
    /\ UNCHANGED notChatVars

\* lines 391-404: apiClient.chat answers
SendChat ==
    /\ send.pc = "chat"
    /\ \E ok \in BOOLEAN :
          IF ok
          THEN /\ send' = [send EXCEPT !.pc = "saveAssistant"]
               /\ UNCHANGED <<chats, isLoading, error>>
          ELSE SendCatch("chat")
    /\ UNCHANGED <<activeChatId, inputValue, dbChats, dbMessages, loads,
                   sendCount, clickCount>>
    /\ UNCHANGED notChatVars

\* lines 189-212 for the assistant message: the insert reaches the store
SendSaveAssistantRequest ==
    /\ send.pc = "saveAssistant"
    /\ \E ok \in BOOLEAN :
          dbMessages' = IF ok
                        THEN [dbMessages EXCEPT ![send.chatIdToUse] =
                                 Append(@, Message("assistant", send.n))]
                        ELSE dbMessages
    /\ send' = [send EXCEPT !.pc = "saveAssistantReply"]
    /\ UNCHANGED <<chats, activeChatId, inputValue, isLoading, error, dbChats,
                   loads, sendCount, clickCount>>
    /\ UNCHANGED notChatVars

\* lines 404-432 and 449-451: the assistant message is shown, with the stored
\* id or with Date.now() when saving it failed
SendSaveAssistantReply ==
    /\ send.pc = "saveAssistantReply"
    /\ chats' = AppendMessage(chats, send.chatIdToUse, Message("assistant", send.n))
    /\ isLoading' = FALSE
    /\ send' = IdleSend("ok", "none", send.before, send.disturbed)
    /\ UNCHANGED <<activeChatId, inputValue, error, dbChats, dbMessages, loads,
                   sendCount, clickCount>>
    /\ UNCHANGED notChatVars

ChatNext ==
    \/ TypeInput
    \/ SelectChat
    \/ handleNewChat
    \/ loadMessagesFetch
    \/ loadMessagesApply
    \/ SendIgnored
    \/ SendStart
    \/ SendCreateChat
    \/ SendSaveUserRequest
    \/ SendSaveUserReply
    \/ SendRagConfig
    \/ SendChat
    \/ SendSaveAssistantRequest
    \/ SendSaveAssistantReply

ChatSpec == ChatInit /\ [][ChatNext]_vars

\* the continuations of handleSendMessage after its awaits
SendSteps ==
    \/ SendCreateChat
    \/ SendSaveUserRequest
    \/ SendSaveUserReply
    \/ SendRagConfig
    \/ SendChat
    \/ SendSaveAssistantRequest
    \/ SendSaveAssistantReply

\* Every request of the send is answered, with a result or with an error, so
\* the handler is resumed after each of its awaits.
ChatLiveSpec == ChatInit /\ [][ChatNext]_vars /\ WF_vars(SendSteps)

----------------------------------------------------------------------------
(* ApiClient.request.  The class stands three times in the sources: the      *)
(* request of lines 10-30 reads only the message field of the error body,    *)
(* the requests of lines 101-123 and 285-307 read detail before message.     *)
(* A JavaScript string is a TLA+ string; a field of the error body is <<>>   *)
(* when the body does not have it and <<v>> when its value is v.             *)

Copies == {"lines10_30", "lines101_123", "lines285_307"}

\* response.statusText; it is "" over HTTP/2
StatusTexts == {"", "Not Found"}

DetailValues == {<<>>, <<"">>, <<"Collection not found">>}
MessageValues == {<<>>, <<"">>, <<"Bad request">>}

\* What response.json() finds: text that is not JSON, the JSON value null,
\* or a JSON object with or without the two fields.
Bodies ==
    {[kind |-> "text", detail |-> <<>>, message |-> <<>>],
     [kind |-> "null", detail |-> <<>>, message |-> <<>>]}
    \cup [kind : {"object"}, detail : DetailValues, message : MessageValues]

Responses == [ok : BOOLEAN, statusText : StatusTexts, body : Bodies]

Pending == [kind |-> "pending", name |-> "", message |-> "", value |-> <<>>]
Thrown(name, message) ==
    [kind |-> "thrown", name |-> name, message |-> message, value |-> <<>>]
Returned(body) ==
    [kind |-> "returned", name |-> "", message |-> "", value |-> <<body>>]

\* a field as the operand of ||: undefined and "" are falsy
Truthy(f) == f # <<>> /\ f[1] # ""

\* a || b
Or(a, b) == IF Truthy(a) THEN a ELSE b

\* `Request failed: ${response.statusText}`
RequestFailed(statusText) == "Request failed: " \o statusText

\* the object the .catch of lines 25 / 116 / 300 puts in place of the body
CatchFallback(copy, statusText) ==
    IF copy = "lines10_30"
    THEN [kind |-> "object", detail |-> <<>>, message |-> <<statusText>>]
    ELSE [kind |-> "object", detail |-> <<statusText>>, message |-> <<statusText>>]

\* the argument of new Error: line 26, lines 118 / 302
ErrorMessage(copy, err, statusText) ==
    IF copy = "lines10_30"
    THEN Or(err.message, <<RequestFailed(statusText)>>)[1]
    ELSE Or(err.detail, Or(err.message, <<RequestFailed(statusText)>>))[1]

ApiInit ==
    /\ apiCopy \in Copies
    /\ response = <<>>
    /\ errorBody = <<>>
    /\ settled = Pending
    /\ apiPc = "fetch"
    /\ ChunkIdle
    /\ PairIdle
    /\ ChatIdle
    /\ DbIdle
    /\ ImportIdle

\* lines 16-22: await fetch(...) resolves, whatever the status
FetchResolves ==
    /\ apiPc = "fetch"
    /\ \E r \in Responses : response' = <<r>>
    /\ apiPc' = "responded"
    /\ UNCHANGED <<apiCopy, errorBody, settled>>
    /\ UNCHANGED notApiVars

\* lines 16-22: await fetch(...) rejects (no connection): request rejects too
FetchRejects ==
    /\ apiPc = "fetch"
    /\ settled' = Thrown("TypeError", "Failed to fetch")
    /\ apiPc' = "done"
    /\ UNCHANGED <<apiCopy, response, errorBody>>
    /\ UNCHANGED notApiVars

\* lines 24-25: await response.json().catch(...)
ReadErrorBody ==
    /\ apiPc = "responded"
    /\ ~response[1].ok
    /\ errorBody' = IF response[1].body.kind = "text"
                    THEN <<CatchFallback(apiCopy, response[1].statusText)>>
                    ELSE <<response[1].body>>
    /\ apiPc' = "error"
    /\ UNCHANGED <<apiCopy, response, settled>>
    /\ UNCHANGED notApiVars

\* lines 26-27: throw new Error(...); reading a field of null throws instead
ThrowError ==
    /\ apiPc = "error"
    /\ settled' = IF errorBody[1].kind = "null"
                  THEN Thrown("TypeError", "Cannot read properties of null")
                  ELSE Thrown("Error", ErrorMessage(apiCopy, errorBody[1],
                                                    response[1].statusText))
    /\ apiPc' = "done"
    /\ UNCHANGED <<apiCopy, response, errorBody>>
    /\ UNCHANGED notApiVars

\* line 29: return response.json()
ReturnJson ==
    /\ apiPc = "responded"
    /\ response[1].ok
    /\ settled' = IF response[1].body.kind = "text"
                  THEN Thrown("SyntaxError", "Unexpected token")
                  ELSE Returned(response[1].body)
    /\ apiPc' = "done"
    /\ UNCHANGED <<apiCopy, response, errorBody>>
    /\ UNCHANGED notApiVars

ApiNext ==
    \/ FetchResolves
    \/ FetchRejects
    \/ ReadErrorBody
    \/ ThrowError
    \/ ReturnJson

ApiSpec == ApiInit /\ [][ApiNext]_vars

----------------------------------------------------------------------------
(* The /db/rag-settings route (GET and PUT), the table behind it and the     *)
(* DBClient.query calls that reach it.  Each call is a record of requests:   *)
(* what was sent, where its handler stands, the response once built and how  *)
(* the call ended.  Every await of a handler is a step of its own, so the    *)
(* handlers of concurrent requests interleave at their queries.              *)

\* how many DBClient.query calls a behaviour issues
MaxRequests == 3

\* the values of the configuration the settings page can hold
Configs ==
    [rag_n_results : {3, 5}, rag_similarity_threshold : {0},
     rag_max_context_tokens : {2000}, chat_model : {"gpt-4o-mini", "gpt-4o"}]

\* error.message of what query() throws
DbErrors == {"", "connection terminated"}

\* obj.name: <<>> when the object has no such property
Field(obj, name) == IF name \in DOMAIN obj THEN <<obj[name]>> ELSE <<>>

\* the column default of chat_model
ChatModelDefault == "gpt-4o-mini"

\* lines 14-18: the body GET answers with when the table is empty
DefaultSettings ==
    [rag_n_results |-> 3, rag_similarity_threshold |-> 0,
     rag_max_context_tokens |-> 2000]

\* part_010 lines 24-27 and 70-73: { error: error.message || fallback }, 500
FailureResponse(message, fallback) ==
    [status |-> 500, body |-> [error |-> Or(<<message>>, <<fallback>>)[1]]]

OkResponse(body) == [status |-> 200, body |-> body]

\* lines 60-63: the inserted row; chat_model is not among the columns given
InsertedRow(id, body) ==
    [id |-> id, rag_n_results |-> body.rag_n_results,
     rag_similarity_threshold |-> body.rag_similarity_threshold,
     rag_max_context_tokens |-> body.rag_max_context_tokens,
     chat_model |-> ChatModelDefault]

\* lines 43-49: the updated row; chat_model is not among the columns set
UpdatedRow(row, body) ==
    [row EXCEPT !.rag_n_results = body.rag_n_results,
                !.rag_similarity_threshold = body.rag_similarity_threshold,
                !.rag_max_context_tokens = body.rag_max_context_tokens]

\* part_000 lines 22-27: what DBClient.query makes of a response
QueryOutcome(resp) ==
    IF resp.status # 200
    THEN Thrown("Error",
                Or(Field(resp.body, "message"),
                   <<"HTTP error! status: " \o ToString(resp.status)>>)[1])
    ELSE Returned(resp.body)

NewRequest(method, body, done) ==
    [method |-> method, pc |-> IF method = "PUT" THEN "check" ELSE "select",
     body |-> body, checkRows |-> <<>>, response |-> <<>>,
     outcome |-> Pending, after |-> done]

\* the PUT calls that had returned a value when a new call is issued
DonePuts ==
    {r \in 1..issued : requests[r].method = "PUT" /\ requests[r].outcome.kind = "returned"}

DbInit ==
    /\ rag_settings = <<>>
    /\ requests = <<>>
    /\ issued = 0
    /\ ChunkIdle
    /\ PairIdle
    /\ ChatIdle
    /\ ApiIdle
    /\ ImportIdle

\* part_007 lines 82-87 and part_000 lines 61-68: handleSave sends the
\* validated values and the page's chat model
upsertRAGSettings ==
    /\ issued < MaxRequests
    /\ \E cfg \in Configs :
          requests' = Append(requests, NewRequest("PUT", <<cfg>>, DonePuts))
    /\ issued' = issued + 1
    /\ UNCHANGED rag_settings
    /\ UNCHANGED notDbVars

\* part_000 lines 57-59
getRAGSettings ==
    /\ issued < MaxRequests
    /\ requests' = Append(requests, NewRequest("GET", <<>>, DonePuts))
    /\ issued' = issued + 1
    /\ UNCHANGED rag_settings
    /\ UNCHANGED notDbVars

\* part_010 line 37: SELECT id FROM rag_settings LIMIT 1 (any row), or the
\* query throws and lines 68-74 answer
PutCheck(r) ==
    /\ requests[r].pc = "check"
    /\ \/ \E e \in DbErrors :
             requests' = [requests EXCEPT
                ![r].pc = "responded",
                ![r].response = <<FailureResponse(e, "Failed to save RAG settings")>>]
       \/ /\ rag_settings = <<>>
          /\ requests' = [requests EXCEPT ![r].pc = "write"]
       \/ \E i \in 1..Len(rag_settings) :
             requests' = [requests EXCEPT ![r].pc = "write",
                                          ![r].checkRows = <<rag_settings[i].id>>]
    /\ UNCHANGED <<rag_settings, issued>>
    /\ UNCHANGED notDbVars

\* part_010 lines 40-67: the UPDATE or the INSERT, and the answer
PutWrite(r) ==
    /\ requests[r].pc = "write"
    /\ \/ \E e \in DbErrors :
             /\ requests' = [requests EXCEPT
                   ![r].pc = "responded",
                   ![r].response = <<FailureResponse(e, "Failed to save RAG settings")>>]
             /\ UNCHANGED rag_settings
       \/ /\ requests[r].checkRows # <<>>
          /\ \E i \in 1..Len(rag_settings) :
                /\ rag_settings[i].id = requests[r].checkRows[1]
                /\ rag_settings' = [rag_settings EXCEPT
                                      ![i] = UpdatedRow(@, requests[r].body[1])]
                /\ requests' = [requests EXCEPT
                      ![r].pc = "responded",
                      ![r].response = <<OkResponse(UpdatedRow(rag_settings[i],
                                                             requests[r].body[1]))>>]
       \/ /\ requests[r].checkRows = <<>>
          /\ LET row == InsertedRow(Len(rag_settings) + 1, requests[r].body[1])
             IN /\ rag_settings' = Append(rag_settings, row)
                /\ requests' = [requests EXCEPT
                      ![r].pc = "responded", ![r].response = <<OkResponse(row)>>]
    /\ UNCHANGED issued
    /\ UNCHANGED notDbVars

\* part_010 lines 4-29: SELECT * ... ORDER BY created_at DESC LIMIT 1
GetSelect(r) ==
    /\ requests[r].pc = "select"
    /\ \/ \E e \in DbErrors :
             requests' = [requests EXCEPT
                ![r].pc = "responded",
                ![r].response = <<FailureResponse(e, "Failed to fetch RAG settings")>>]
       \/ requests' = [requests EXCEPT
             ![r].pc = "responded",
             ![r].response = <<OkResponse(IF rag_settings = <<>> THEN DefaultSettings
                                          ELSE rag_settings[Len(rag_settings)])>>]
    /\ UNCHANGED <<rag_settings, issued>>
    /\ UNCHANGED notDbVars

\* part_000 lines 22-27: the response reaches DBClient.query
QueryReceive(r) ==
    /\ requests[r].pc = "responded"
    /\ requests' = [requests EXCEPT
          ![r].pc = "done",
          ![r].outcome = QueryOutcome(requests[r].response[1])]
    /\ UNCHANGED <<rag_settings, issued>>
    /\ UNCHANGED notDbVars

DbNext ==
    \/ upsertRAGSettings
    \/ getRAGSettings
    \/ \E r \in 1..issued :
        \/ PutCheck(r)
        \/ PutWrite(r)
        \/ GetSelect(r)
        \/ QueryReceive(r)

DbSpec == DbInit /\ [][DbNext]_vars

----------------------------------------------------------------------------
(* The import page: onDrop and handleUpload.  A handler runs from one await  *)
(* to the next as one step and reads the state it closed over when it was    *)
(* called.  The dropzone, the collection field and the upload button are     *)
(* disabled while isUploading, and the button also when the collection name  *)
(* is blank or no parsed file is left to upload.  A dropped file is its name *)
(* and its text; the browser gives no type, so the type is inferred from the *)
(* name.  The three reads of onDrop's loop are taken as one await.           *)

\* onDrop calls and handleUpload calls of a behaviour, files of one drop
MaxDrops == 2
MaxUploads == 2
MaxDropFiles == 2
\* the latest reading of Date.now() (the clock stands still from then on)
MaxNow == 1

FileNames == {"a.txt", "a.pdf"}

\* the text of a dropped file; Unreadable: reading or parsing it throws
Unreadable == "unreadable"
FileTexts == {"", "two", Unreadable}

DroppedFiles == [name : FileNames, text : FileTexts]

\* the lists of files one drop can bring
Drops == UNION {[1..n -> DroppedFiles] : n \in 1..MaxDropFiles}

\* lines 677-684
inferMimeFromName(name) ==
    IF name = "a.pdf" THEN "application/pdf" ELSE "text/plain"

\* lines 180-183: chunkText(text, { size: 1200, overlap: 200 }) of the two
\* readable texts: no chunk, two chunks
ChunksOf(fileText) ==
    IF fileText = "" THEN <<>> ELSE <<"two-1", "two-2">>

\* line 214: fileName.replace(/[^a-zA-Z0-9]/g, "_")
Sanitize(name) == IF name = "a.pdf" THEN "a_pdf" ELSE "a_txt"

\* generateChunkId that leaves the chunk index out
generateChunkId_NoIndex(fileName, chunkIndex, timestamp) ==
    <<Sanitize(fileName), "_chunk_", timestamp>>

\* lines 213-217: `${sanitized}_chunk_${chunkIndex}_${timestamp}`
generateChunkId(fileName, chunkIndex, timestamp) ==
    <<Sanitize(fileName), "_chunk_", chunkIndex, "_", timestamp>>

\* the values of uploadStatuses (NoStatus: the map has no entry)
NoStatus == [status |-> "none"]
IdleStatus == [status |-> "idle", progress |-> 0]
ErrorStatus(message) == [status |-> "error", progress |-> 0, error |-> message]
UploadingStatus(n) ==
    [status |-> "uploading", progress |-> 50, totalChunks |-> n, chunksUploaded |-> 0]
SuccessStatus(n) ==
    [status |-> "success", progress |-> 100, totalChunks |-> n, chunksUploaded |-> n]

\* lines 151-189: the ParsedFile entries a drop yields under the closure's
\* uploadedFiles
DropResults(files, closedUploaded) ==
    LET kept == SelectSeq(files, LAMBDA f :
                    f.name \notin closedUploaded /\ f.text # Unreadable)
    IN [i \in 1..Len(kept) |->
           [name |-> kept[i].name, type |-> inferMimeFromName(kept[i].name),
            text |-> kept[i].text, chunks |-> ChunksOf(kept[i].text)]]

\* lines 153-156, 185-195: the error the drop leaves
DropError(files, closedUploaded) ==
    IF \E i \in 1..Len(files) : files[i].name \in closedUploaded
    THEN "already uploaded and skipped"
    ELSE IF \E i \in 1..Len(files) : files[i].text = Unreadable
    THEN "Failed to parse file"
    ELSE "null"

\* lines 200-206: idle for every file of results
ResetStatuses(statuses, results) ==
    [n \in FileNames |->
        IF \E i \in 1..Len(results) : results[i].name = n
        THEN IdleStatus ELSE statuses[n]]

\* lines 226-228
FilesToUpload(files, uploaded) ==
    SelectSeq(files, LAMBDA f : f.name \notin uploaded)

\* lines 547-553: the upload button is enabled
ButtonEnabled ==
    /\ parsedFiles # <<>>
    /\ ~isUploading
    /\ collectionName # ""
    /\ FilesToUpload(parsedFiles, uploadedFiles) # <<>>

\* AfterFailure that gives up the remaining files
AfterFailure_GiveUp(i, n) == n + 1

\* lines 332-344: after the catch of a failed upsert the loop goes on
AfterFailure(i, n) == i + 1

\* lines 249-303: the loop from file i up to its next await or its end; the
\* files without chunks on the way get their error status
RECURSIVE RunLoop(_, _, _, _, _)
RunLoop(files, closedUploaded, i, statuses, attempts) ==
    IF i > Len(files)
    THEN [i |-> i, statuses |-> statuses, attempts |-> attempts]
    ELSE IF files[i].name \in closedUploaded
    THEN RunLoop(files, closedUploaded, i + 1, statuses, attempts)
    ELSE IF Len(files[i].chunks) = 0
    THEN RunLoop(files, closedUploaded, i + 1,
                 [statuses EXCEPT ![files[i].name] = ErrorStatus("No chunks to upload")],
                 Append(attempts, [index |-> i, upsert |-> FALSE]))
    ELSE [i |-> i,
          statuses |-> [statuses EXCEPT ![files[i].name] =
                           UploadingStatus(Len(files[i].chunks))],
          attempts |-> Append(attempts, [index |-> i, upsert |-> TRUE])]

\* lines 282-310: the request of apiClient.upsert for this file, made at time t
UpsertRequest(file, t, succeeded) ==
    [collection |-> collectionName,
     ids |-> [k \in 1..Len(file.chunks) |-> generateChunkId(file.name, k - 1, t)],
     documents |-> file.chunks,
     metadatas |-> [k \in 1..Len(file.chunks) |->
                       [filename |-> file.name, file_type |-> file.type,
                        chunk_index |-> k - 1, uploaded_at |-> t]],
     file |-> file, result |-> "pending", succeededBefore |-> succeeded]

IdleUpload ==
    [pc |-> "idle", uploadedFiles |-> {}, filesToUpload |-> <<>>, i |-> 0,
     totalUploaded |-> 0, attempts |-> <<>>, disturbed |-> FALSE]

\* The handler goes on from the outcome r of RunLoop: it issues the upsert of
\* file r.i and awaits it, or (lines 346-356) leaves the loop and ends.
GoOn(u, r, total, issuedSoFar) ==
    /\ uploadStatuses' = r.statuses
    /\ IF r.i > Len(u.filesToUpload)
       THEN /\ successMessage' = IF total > 0 THEN "Successfully uploaded"
                                 ELSE successMessage
            /\ isUploading' = FALSE
            /\ upload' = [u EXCEPT !.pc = "idle", !.i = r.i, !.totalUploaded = total,
                                   !.attempts = r.attempts]
            /\ upserts' = issuedSoFar
            /\ now' = now
       ELSE /\ \E t \in {now, now + 1} :
                  /\ t <= MaxNow
                  /\ now' = t
                  /\ upserts' = Append(issuedSoFar,
                        UpsertRequest(u.filesToUpload[r.i], t,
                            {issuedSoFar[k].file.name :
                                k \in {j \in 1..Len(issuedSoFar) :
                                          issuedSoFar[j].result = "ok"}}))
            /\ isUploading' = TRUE
            /\ upload' = [u EXCEPT !.pc = "await", !.i = r.i, !.totalUploaded = total,
                                   !.attempts = r.attempts]
            /\ UNCHANGED successMessage

ImportInit ==
    /\ parsedFiles = <<>>
    /\ uploadStatuses = [n \in FileNames |-> NoStatus]
    /\ isUploading = FALSE
    /\ uploadedFiles = {}
    /\ collectionName = ""
    /\ importError = "null"
    /\ successMessage = "null"
    /\ drop = <<>>
    /\ upload = IdleUpload
    /\ upserts = <<>>
    /\ now = 0
    /\ dropCount = 0
    /\ uploadCount = 0
    /\ ChunkIdle
    /\ PairIdle
    /\ ChatIdle
    /\ ApiIdle
    /\ DbIdle

\* lines 397-403: the collection is chosen or cleared
SetCollectionName ==
    /\ ~isUploading
    /\ \E c \in {"", "docs"} : c # collectionName /\ collectionName' = c
    /\ UNCHANGED <<parsedFiles, uploadStatuses, isUploading, uploadedFiles,
                   importError, successMessage, drop, upload, upserts, now,
                   dropCount, uploadCount>>
    /\ UNCHANGED notImportVars

\* lines 197-208: the end of onDrop
DropApply(files, closedUploaded) ==
    LET results == DropResults(files, closedUploaded)
    IN /\ importError' = DropError(files, closedUploaded)
       /\ IF Len(results) > 0
          THEN /\ parsedFiles' = parsedFiles \o results
               /\ uploadStatuses' = ResetStatuses(uploadStatuses, results)
               /\ successMessage' = "null"
          ELSE UNCHANGED <<parsedFiles, uploadStatuses, successMessage>>

\* lines 143-165: onDrop up to its first await; when every file is skipped as
\* uploaded there is none and the handler ends at once
onDrop ==
    /\ ~isUploading
    /\ drop = <<>>
    /\ dropCount < MaxDrops
    /\ dropCount' = dropCount + 1
    /\ \E files \in Drops :
          IF \A i \in 1..Len(files) : files[i].name \in uploadedFiles
          THEN /\ DropApply(files, uploadedFiles)
               /\ UNCHANGED drop
          ELSE /\ drop' = <<[files |-> files, uploadedFiles |-> uploadedFiles]>>
               /\ importError' = "null"
               /\ UNCHANGED <<parsedFiles, uploadStatuses, successMessage>>
    /\ UNCHANGED <<isUploading, uploadedFiles, collectionName, upload, upserts,
                   now, uploadCount>>
    /\ UNCHANGED notImportVars

\* lines 165-208: the files have been read; the rest of onDrop
onDropParsed ==
    /\ drop # <<>>
    /\ DropApply(drop[1].files, drop[1].uploadedFiles)
    /\ drop' = <<>>
    /\ upload' = [upload EXCEPT !.disturbed = (upload.pc # "idle" \/ @)]
    /\ UNCHANGED <<isUploading, uploadedFiles, collectionName, upserts, now,
                   dropCount, uploadCount>>
    /\ UNCHANGED notImportVars

\* lines 219-310: handleUpload up to its first await, or to its end
handleUpload ==
    /\ ButtonEnabled
    /\ uploadCount < MaxUploads
    /\ uploadCount' = uploadCount + 1
    /\ LET filesToUpload == FilesToUpload(parsedFiles, uploadedFiles)
       IN IF collectionName = ""
          THEN /\ importError' = "Please enter a collection name"
               /\ UNCHANGED <<uploadStatuses, successMessage, isUploading, upload,
                              upserts, now>>
          ELSE IF Len(filesToUpload) = 0
          THEN /\ importError' = "All files have already been uploaded"
               /\ UNCHANGED <<uploadStatuses, successMessage, isUploading, upload,
                              upserts, now>>
          ELSE LET u == [IdleUpload EXCEPT !.uploadedFiles = uploadedFiles,
                                           !.filesToUpload = filesToUpload]
                   r == RunLoop(filesToUpload, uploadedFiles, 1, uploadStatuses, <<>>)
               IN /\ importError' = "null"
                  /\ GoOn(u, r, 0, upserts)
    /\ UNCHANGED <<parsedFiles, uploadedFiles, collectionName, drop, dropCount>>
    /\ UNCHANGED notImportVars

\* lines 306-344: the upsert is answered; success or catch, then the loop
\* goes on to its next await or to the end of the handler
UpsertAnswered ==
    /\ upload.pc = "await"
    /\ LET file == upload.filesToUpload[upload.i]
           n == Len(file.chunks)
           last == Len(upserts)
       IN \E ok \in BOOLEAN :
             IF ok
             THEN LET r == RunLoop(upload.filesToUpload, upload.uploadedFiles,
                                   upload.i + 1,
                                   [uploadStatuses EXCEPT ![file.name] = SuccessStatus(n)],
                                   upload.attempts)
                  IN /\ uploadedFiles' = uploadedFiles \cup {file.name}
                     /\ GoOn(upload, r, upload.totalUploaded + n,
                             [upserts EXCEPT ![last].result = "ok"])
             ELSE LET r == RunLoop(upload.filesToUpload, upload.uploadedFiles,
                                   AfterFailure(upload.i, Len(upload.filesToUpload)),
                                   [uploadStatuses EXCEPT ![file.name] =
                                       ErrorStatus("Failed to upload")],
                                   upload.attempts)
                  IN /\ UNCHANGED uploadedFiles
                     /\ GoOn(upload, r, upload.totalUploaded,
                             [upserts EXCEPT ![last].result = "failed"])
    /\ UNCHANGED <<parsedFiles, collectionName, importError, drop, dropCount,
                   uploadCount>>
    /\ UNCHANGED notImportVars

ImportNext ==
    \/ SetCollectionName
    \/ onDrop
    \/ onDropParsed
    \/ handleUpload
    \/ UpsertAnswered

ImportSpec == ImportInit /\ [][ImportNext]_vars

\* Every upsert request is answered, with a result or with an error.
ImportLiveSpec == ImportInit /\ [][ImportNext]_vars /\ WF_vars(UpsertAnswered)

----------------------------------------------------------------------------
(* What the claims speak of *)

\* the overlap as passed in (after the default of line 8, before the clamps)
overlapArg == Nullish(options.overlap, DefaultOverlap)

\* the windowing part of the function (lines 12-32) has been entered
Windowed == pc \in {"loop", "return"} \/ (pc = "done" /\ windows # <<>>)

\* the characters of the normalized text inside window w, untrimmed
WindowText(w) == SubSeq(normalized, w.start + 1, w.end)

\* the positions of the normalized text that window w covers
WindowPositions(w) == w.start .. (w.end - 1)

NonEmptyOnly(cs) == SelectSeq(cs, LAMBDA c : Len(c) > 0)

RECURSIVE Concat(_)
Concat(ss) == IF ss = <<>> THEN <<>> ELSE Head(ss) \o Concat(Tail(ss))

CountChar(s, c) == Cardinality({i \in 1..Len(s) : s[i] = c})

\* the elements of s at the positions of I, in order
SubseqAt(s, I) ==
    LET F[k \in 0..Len(s)] ==
            IF k = 0 THEN <<>>
            ELSE IF k \in I THEN Append(F[k - 1], s[k]) ELSE F[k - 1]
    IN F[Len(s)]

\* The normalisation as the specification words it, by positions: a CR that
\* stands before an LF goes; tabs and NBSPs become spaces; of every maximal
\* run of spaces, form-feeds and vertical-tabs only the first position stays,
\* as a space.
RefNormalize(t) ==
    LET t1 == SubseqAt(t, {i \in 1..Len(t) :
                  ~(t[i] = "CR" /\ i < Len(t) /\ t[i + 1] = "LF")})
        t3 == [i \in 1..Len(t1) |-> IF t1[i] \in {"TAB", "NBSP"} THEN "SP" ELSE t1[i]]
        t4 == SubseqAt(t3, {i \in 1..Len(t3) :
                  ~(t3[i] \in {"SP", "FF", "VT"} /\ i > 1
                      /\ t3[i - 1] \in {"SP", "FF", "VT"})})
    IN [i \in 1..Len(t4) |-> IF t4[i] \in {"SP", "FF", "VT"} THEN "SP" ELSE t4[i]]

\* The reference windows: first start 0, end = min(start + sz, len), next
\* start = end - o, the window whose end is len being the last (o < sz).
RECURSIVE RefWindows(_, _, _, _)
RefWindows(st, sz, o, len) ==
    LET end == IF st + sz < len THEN st + sz ELSE len
    IN IF end = len THEN <<[start |-> st, end |-> end]>>
       ELSE <<[start |-> st, end |-> end]>> \o RefWindows(end - o, sz, o, len)

RefChunks(t, sz, ov) ==
    LET n == Normalize(t)
        w == RefWindows(0, sz, ClampOverlap(ov, sz), Len(n))
    IN NonEmptyOnly([i \in 1..Len(w) |-> Trim(SubSeq(n, w[i].start + 1, w[i].end))])

----------------------------------------------------------------------------
(* The claims *)

\* C1: for non-empty text and size > 0 the returned sequence equals the
\* reference result: the trimmed, non-empty windows of the normalized text,
\* in window order, with next start = end - clamped overlap.
C1_EqualsReference ==
    (pc = "done" /\ ~textIsNull /\ text # <<>> /\ size > 0)
        => result = RefChunks(text, size, overlapArg)

\* C1 witness: a call with overlap that took several windows and dropped one.
C1_Witness ==
    /\ pc = "done" /\ text # <<>> /\ size > 0
    /\ overlap >= 1 /\ Len(windows) >= 2
    /\ result # <<>> /\ Len(result) < Len(windows)

\* C2: whenever the loop goes round again the cursor has strictly increased
\* and is still inside the text, and the loop never takes more iterations
\* than the text has characters, whatever size and overlap were passed: the
\* loop cannot run forever.
C2_LoopProgress ==
    [][/\ (pc = "loop" /\ pc' = "loop")
            => (start' > start /\ start' < Len(normalized'))
       /\ Len(windows') <= Len(normalized')]_vars

\* C2 witness: the loop going round after a call with overlap >= size.
C2_Witness ==
    /\ pc = "loop" /\ start > 0
    /\ options.overlap # <<>> /\ overlapArg >= size

\* C3: once the windowing is entered, 0 <= overlap < size.
C3_OverlapInRange ==
    Windowed => (size > 0 /\ 0 <= overlap /\ overlap < size)

\* C3 witness: an overlap >= size clamped to floor(size / 4) = 1.
C3_Witness ==
    /\ Windowed /\ overlapArg >= size /\ overlap = 1

\* C4: with size > 0 every returned chunk has at most size characters.
C4_ChunkAtMostSize ==
    (pc = "done" /\ size > 0)
        => \A i \in 1..Len(result) : Len(result[i]) <= size

\* C4 witness: several chunks returned, one of them of exactly size characters.
C4_Witness ==
    /\ pc = "done" /\ size > 0 /\ Len(result) >= 2
    /\ \E i \in 1..Len(result) : Len(result[i]) = size

\* C5 as stated: every returned element, for any text, size and overlap, is
\* non-empty after trimming.
C5_Original ==
    pc = "done" => \A i \in 1..Len(result) : Trim(result[i]) # <<>>

\* C5 amended: with size > 0 every returned element is non-empty after
\* trimming (and is already trimmed).
C5_NonEmptyWhenSized ==
    (pc = "done" /\ size > 0)
        => \A i \in 1..Len(result) :
              Trim(result[i]) # <<>> /\ Trim(result[i]) = result[i]

\* C5 witness: a call with size > 0 one of whose windows was only whitespace.
C5_Witness ==
    /\ pc = "done" /\ size > 0 /\ result # <<>>
    /\ \E i \in 1..Len(windows) : Trim(WindowText(windows[i])) = <<>>

\* C6: for empty or null text the result is the empty sequence, for every
\* size and overlap.
C6_EmptyText ==
    (pc = "done" /\ (textIsNull \/ text = <<>>)) => result = <<>>

\* C6 witness: the empty string with size <= 0.
C6_Witness ==
    pc = "done" /\ ~textIsNull /\ text = <<>> /\ size <= 0 /\ result = <<>>

\* C7 as stated: for every text (a string) and size <= 0 the result is the
\* one-element sequence holding the raw text, the empty text included.
C7_Original ==
    (pc = "done" /\ ~textIsNull /\ size <= 0) => result = <<text>>

\* C7 amended: for every non-empty text and size <= 0 the result is the
\* one-element sequence holding the raw text.
C7_RawTextWhenNonEmpty ==
    (pc = "done" /\ text # <<>> /\ size <= 0) => result = <<text>>

\* C7 witness: a whitespace-only text that normalisation would change,
\* returned as it is.
C7_Witness ==
    /\ pc = "done" /\ size <= 0 /\ text # <<>>
    /\ Trim(text) = <<>> /\ Normalize(text) # text
    /\ result = <<text>>

\* C8: the windowed text is the input after the four steps: no tab, NBSP,
\* form-feed or vertical-tab is left, no two spaces are adjacent, and the
\* number of LF characters is unchanged.
C8_Normalized ==
    Windowed =>
        /\ normalized = RefNormalize(text)
        /\ \A i \in 1..Len(normalized) : normalized[i] \notin {"TAB", "NBSP", "FF", "VT"}
        /\ \A i \in 1..(Len(normalized) - 1) :
              ~(normalized[i] = "SP" /\ normalized[i + 1] = "SP")
        /\ CountChar(normalized, "LF") = CountChar(text, "LF")

\* C8 witness: a run mixing a tab, an NBSP and a space, windowed as one space.
C8_Witness ==
    /\ Windowed
    /\ CountChar(text, "TAB") = 1 /\ CountChar(text, "NBSP") = 1
    /\ CountChar(text, "SP") = 1
    /\ normalized = <<"SP">>

\* C9: every window after the first starts at the previous window's end minus
\* the clamped overlap, and shares exactly overlap positions with it.
C9_ConsecutiveWindows ==
    \A i \in 2..Len(windows) :
        /\ windows[i].start = windows[i - 1].end - overlap
        /\ Cardinality(WindowPositions(windows[i - 1])
                         \cap WindowPositions(windows[i])) = overlap

\* C9 witness: three windows or more with an overlap of two or more.
C9_Witness ==
    Len(windows) >= 3 /\ overlap >= 2

\* C10: with the overlap 0 the windows partition the normalized text: the
\* first starts at 0, each next one starts where the previous ended, their
\* concatenation is the normalized text, and the result is the windows,
\* trimmed, without the empty ones.
C10_Partition ==
    (pc = "done" /\ windows # <<>> /\ overlap = 0) =>
        LET texts == [i \in 1..Len(windows) |-> WindowText(windows[i])]
        IN /\ windows[1].start = 0
           /\ \A i \in 2..Len(windows) : windows[i].start = windows[i - 1].end
           /\ \A i \in 1..Len(windows) : windows[i].start < windows[i].end
           /\ Concat(texts) = normalized
           /\ result = NonEmptyOnly([i \in 1..Len(texts) |-> Trim(texts[i])])

\* C10 witness: an overlap of 0 passed in, three windows, one dropped.
C10_Witness ==
    /\ pc = "done" /\ options.overlap = <<0>> /\ overlap = 0
    /\ Len(windows) >= 3 /\ Len(result) < Len(windows)

\* C11: no window ends beyond the length of the normalized text, every window
\* but the last ends before it, and once the loop has stopped the last window
\* ends exactly at it.
C11_LastWindowEndsAtLength ==
    /\ \A i \in 1..Len(windows) :
          /\ windows[i].end <= Len(normalized)
          /\ i < Len(windows) => windows[i].end < Len(normalized)
    /\ (pc = "loop" /\ windows # <<>>)
          => windows[Len(windows)].end < Len(normalized)
    /\ (pc = "return" \/ (pc = "done" /\ windows # <<>>))
          => windows[Len(windows)].end = Len(normalized)

\* C11 witness: a returned call whose third window was the one to reach the
\* end, with an overlap in use.
C11_Witness ==
    /\ pc = "done" /\ Len(windows) = 3 /\ overlap >= 1
    /\ windows[3].end = Len(normalized)

\* the first and last positions of s that trim keeps
NonSpacePositions(s) == {i \in 1..Len(s) : s[i] \notin
                            {"SP", "LF", "CR", "TAB", "NBSP", "FF", "VT"}}
SetMin(S) == CHOOSE x \in S : \A y \in S : x <= y
SetMax(S) == CHOOSE x \in S : \A y \in S : x >= y

\* trimming stated by positions: from the first to the last non-whitespace
\* character, nothing when there is none
RefTrim(s) ==
    IF NonSpacePositions(s) = {} THEN <<>>
    ELSE SubSeq(s, SetMin(NonSpacePositions(s)), SetMax(NonSpacePositions(s)))

\* ceil(a / b) for a >= 0, b > 0
CeilDiv(a, b) == (a + b - 1) \div b

\* C12: with size > 0 and an overlap >= size passed in, the result is that of
\* the call with the same text and size and overlap floor(size / 4).
C12_LargeOverlapAsQuarter ==
    (pc = "done" /\ size > 0 /\ overlapArg >= size)
        => result = chunkText(text, textIsNull,
                              [size |-> options.size, overlap |-> <<size \div 4>>])

\* C12 witness: size 4 with overlap >= 4 passed, windowed twice or more with
\* the overlap 1.
C12_Witness ==
    /\ pc = "done" /\ size = 4 /\ options.overlap # <<>> /\ overlapArg >= size
    /\ overlap = 1 /\ Len(windows) >= 2

\* C13: with a negative overlap passed in, the result is that of the call
\* with the same text and size and overlap 0, for every size.
C13_NegativeOverlapAsZero ==
    (pc = "done" /\ overlapArg < 0)
        => result = chunkText(text, textIsNull,
                              [size |-> options.size, overlap |-> <<0>>])

\* C13 witness: a negative overlap, windowed twice or more.
C13_Witness ==
    pc = "done" /\ overlapArg < 0 /\ Len(windows) >= 2

\* C14 as stated: chunking an emitted chunk again with the same options
\* returns exactly that chunk.
C14_Original ==
    pc = "done"
        => \A i \in 1..Len(result) :
              chunkText(result[i], FALSE, options) = <<result[i]>>

\* C15 as stated: a text shorter than size (size > 0) gives exactly one chunk,
\* the whole text normalized and trimmed.
C15_Original ==
    (pc = "done" /\ ~textIsNull /\ size > 0 /\ Len(text) < size)
        => result = <<RefTrim(RefNormalize(text))>>

\* C15 amended: a text shorter than size (size > 0) that is not only
\* whitespace gives exactly one chunk, the whole text normalized and trimmed;
\* an empty or whitespace-only one gives the empty sequence.
C15_ShortText ==
    (pc = "done" /\ ~textIsNull /\ size > 0 /\ Len(text) < size)
        => result = IF RefTrim(RefNormalize(text)) = <<>> THEN <<>>
                    ELSE <<RefTrim(RefNormalize(text))>>

\* C15 witness: a short text that normalisation and trimming both change.
C15_Witness ==
    /\ pc = "done" /\ size > 0 /\ size <= MaxSize /\ Len(text) < size
    /\ result # <<>>
    /\ RefNormalize(text) # text
    /\ RefTrim(RefNormalize(text)) # RefNormalize(text)

\* C16: the number of chunks never exceeds ceil(L / (size - o)), and is
\* smaller when some window is only whitespace.
C16_ChunkCount ==
    (pc = "done" /\ windows # <<>>) =>
        LET estimate == CeilDiv(Len(normalized), size - overlap)
        IN /\ Len(result) <= estimate
           /\ (\E i \in 1..Len(windows) : RefTrim(WindowText(windows[i])) = <<>>)
                => Len(result) < estimate

\* C16 witness: a call with an overlap that returns exactly the estimate.
C16_Witness ==
    /\ pc = "done" /\ Len(windows) >= 3 /\ overlap >= 1
    /\ Len(result) = CeilDiv(Len(normalized), size - overlap)

\* C18: the result is that of the call with every omitted option written
\* out as its default, 1200 for size and 200 for overlap; the default is
\* taken before the clamps, so an omitted overlap with size <= 200 windows
\* with overlap floor(size / 4).
C18_Defaults ==
    /\ pc = "done" =>
          result = ChunkTextBody(text, textIsNull,
                       IF options.size = <<>> THEN 1200 ELSE options.size[1],
                       IF options.overlap = <<>> THEN 200 ELSE options.overlap[1])
    /\ (Windowed /\ options.overlap = <<>> /\ size <= 200)
          => overlap = size \div 4

\* C18 witness: size 4 and no overlap given, windowed twice or more with the
\* overlap 1.
C18_Witness ==
    /\ pc = "done" /\ options.size = <<4>> /\ options.overlap = <<>>
    /\ overlap = 1 /\ Len(windows) >= 2

\* C17: the result of an invocation is a function of its own text and options
\* only, whatever the other invocation does between its steps: it is what
\* chunkText returns for these arguments, so two invocations with equal
\* arguments return equal sequences.
C17_OwnArgumentsOnly ==
    /\ \A i \in Calls :
          calls[i].pc = "done"
              => calls[i].result = chunkText(calls[i].text, FALSE, calls[i].options)
    /\ \A i, j \in Calls :
          (/\ calls[i].pc = "done" /\ calls[j].pc = "done"
           /\ calls[i].text = calls[j].text
           /\ calls[i].options = calls[j].options)
              => calls[i].result = calls[j].result

\* C17 witness: two invocations with equal arguments, both returned with two
\* chunks or more.
C17_Witness ==
    /\ calls[1].pc = "done" /\ calls[2].pc = "done"
    /\ calls[1].text = calls[2].text /\ calls[1].options = calls[2].options
    /\ Len(calls[1].result) >= 2
    /\ Len(arrays[1]) >= 2 /\ Len(arrays[2]) >= 2

\* the messages chat id had in the chat list cs, none when it is not listed
MessagesIn(cs, id) ==
    IF \E i \in 1..Len(cs) : cs[i].id = id
    THEN (CHOOSE c \in {cs[i] : i \in 1..Len(cs)} : c.id = id).messages
    ELSE <<>>

\* C19 as stated: after a send that failed (no loadMessages having replaced a
\* list meanwhile), the local message list of every chat is what it was when
\* the send started; a chat the send created has none.
C19_Original ==
    (send.outcome = "failed" /\ ~send.disturbed)
        => \A i \in 1..Len(chats) :
              chats[i].messages = MessagesIn(send.before, chats[i].id)

\* what claim C20 says the thrown Error's message is
ClaimedMessage(r) ==
    IF r.body.kind = "text" THEN r.statusText
    ELSE IF r.body.detail # <<>> THEN r.body.detail[1]
    ELSE IF r.body.message # <<>> THEN r.body.message[1]
    ELSE RequestFailed(r.statusText)

\* C20 as stated: a call of request that got a non-OK response ends by
\* throwing an Error whose message is the body's detail when the body has
\* one, otherwise its message, otherwise 'Request failed: <statusText>', and
\* the status text when the body is not JSON; it never returns a value.
C20_Original ==
    (apiPc = "done" /\ response # <<>> /\ ~response[1].ok)
        => /\ settled.kind = "thrown"
           /\ settled.name = "Error"
           /\ settled.message = ClaimedMessage(response[1])

\* C25: for size > 0 the windows cover the normalized text whatever the
\* overlap: once the loop has stopped every position of [0, L) lies in a
\* window, and every character of the normalized text that is not whitespace
\* stands, at its position, in a returned chunk.
C25_WindowsCover ==
    /\ (pc = "return" \/ (pc = "done" /\ windows # <<>>)) =>
          \A p \in 0..(Len(normalized) - 1) :
              \E i \in 1..Len(windows) : p \in WindowPositions(windows[i])
    /\ (pc = "done" /\ windows # <<>>) =>
          \A p \in NonSpacePositions(normalized) :
              \E i \in 1..Len(result) :
                  \E a \in 1..p :
                      /\ p < a + Len(result[i])
                      /\ a + Len(result[i]) - 1 <= Len(normalized)
                      /\ result[i] = SubSeq(normalized, a, a + Len(result[i]) - 1)

\* C25 witness: a returned call with three windows, an overlap in use, a
\* window dropped as whitespace and a non-whitespace character in the last.
C25_Witness ==
    /\ pc = "done" /\ Len(windows) >= 3 /\ overlap >= 1
    /\ Len(result) < Len(windows)
    /\ Len(normalized) \in NonSpacePositions(normalized)

\* the first send of a run, made with no chat active and no click before or
\* after it, has ended with every request answered successfully (the two
\* messages stored, no error shown) and no loadMessages call is pending
FirstSendCreatedChat ==
    /\ sendCount = 1 /\ clickCount = 0
    /\ send.pc = "idle" /\ send.outcome = "ok"
    /\ loads = {}
    /\ error = NoError
    /\ dbMessages[2] = <<Message("user", 1), Message("assistant", 1)>>

\* C26 as stated: when handleSendMessage has created a chat and every request
\* has succeeded, then, all pending callbacks having run, the new chat's local
\* list is the user message followed by the assistant reply, each once.
C26_Original ==
    FirstSendCreatedChat =>
        MessagesIn(chats, 2) = <<Message("user", 1), Message("assistant", 1)>>

\* C27: sends are single-flight and release the flag.  While a send runs
\* isLoading is true; a send starts only when none runs, isLoading is false
\* and the input is not blank, so a call made while loading or with a blank
\* input starts nothing; and every started send ends with isLoading false.
C27_SingleFlight ==
    /\ [](send.pc # "idle" => isLoading)
    /\ [][sendCount' # sendCount =>
             /\ send.pc = "idle" /\ ~isLoading /\ TrimInput(inputValue) # ""
             /\ isLoading' /\ send'.pc # "idle"]_vars
    /\ [][LoadingGuard(inputValue, isLoading) =>
             (sendCount' = sendCount /\ (send.pc = "idle" => send'.pc = "idle"))]_vars
    /\ (send.pc # "idle") ~> (send.pc = "idle" /\ ~isLoading)

\* C27 witness: a second send has ended on its failure path with the flag
\* released, after the first one had released it too.
C27_Witness ==
    /\ sendCount = 2 /\ send.pc = "idle" /\ send.outcome = "failed"
    /\ ~isLoading

SettingFields ==
    {"rag_n_results", "rag_similarity_threshold", "rag_max_context_tokens",
     "chat_model"}

\* C22 as stated: when one save has been made and has succeeded, a GET issued
\* after it returns the four values that were saved, the chat model included.
C22_Original ==
    \A p, g \in 1..issued :
        (/\ requests[p].method = "PUT" /\ requests[g].method = "GET"
         /\ \A q \in 1..issued : requests[q].method = "PUT" => q = p
         /\ p \in requests[g].after
         /\ requests[g].outcome.kind = "returned")
        => \A f \in SettingFields :
              Field(requests[g].outcome.value[1], f) = <<requests[p].body[1][f]>>

\* C30 as stated: when a handler has answered with a non-2xx status and its
\* failure body, DBClient.query throws an Error whose message is the error
\* text of that body.
C30_Original ==
    \A r \in 1..issued :
        (requests[r].pc = "done" /\ requests[r].response[1].status # 200)
        => /\ requests[r].outcome.kind = "thrown"
           /\ requests[r].outcome.name = "Error"
           /\ <<requests[r].outcome.message>> = Field(requests[r].response[1].body, "error")

\* the elements of a sequence
Range(seq) == {seq[k] : k \in 1..Len(seq)}

\* C23: every upsert request handleUpload issues is well formed: ids,
\* documents and metadatas have the length of the file's chunk list, the
\* documents are the chunks in their order, the metadata at position i has
\* chunk_index i and the file's name and type, and the ids are pairwise
\* distinct.
C23_WellFormedUpsert ==
    \A k \in 1..Len(upserts) :
        LET q == upserts[k]
            n == Len(ChunksOf(q.file.text))
        IN /\ Len(q.ids) = n /\ Len(q.documents) = n /\ Len(q.metadatas) = n
           /\ q.documents = ChunksOf(q.file.text)
           /\ \A i \in 1..n :
                 /\ q.metadatas[i].chunk_index = i - 1
                 /\ q.metadatas[i].filename = q.file.name
                 /\ q.metadatas[i].file_type = inferMimeFromName(q.file.name)
           /\ \A i, j \in 1..n : i # j => q.ids[i] # q.ids[j]

\* C23 witness: two requests have been issued, for files of different names
\* and types, each with two chunks.
C23_Witness ==
    /\ Len(upserts) >= 2
    /\ upserts[1].file.name # upserts[2].file.name
    /\ Len(upserts[1].ids) = 2 /\ Len(upserts[2].ids) = 2

\* C24 as stated: no upsert request is issued for a file name after an upsert
\* for that name has succeeded.
C24_Original ==
    \A k \in 1..Len(upserts) :
        upserts[k].file.name \notin upserts[k].succeededBefore

\* C28 as stated: whenever no upload runs, a file name is in uploadedFiles
\* exactly when its status is 'success'; a 'success' status has progress 100
\* and chunksUploaded = totalChunks = the chunk count of a parsed file of that
\* name; and no status is 'uploading'.
C28_Original ==
    upload.pc = "idle" =>
        \A n \in FileNames :
            /\ n \in uploadedFiles <=> uploadStatuses[n].status = "success"
            /\ uploadStatuses[n].status = "success" =>
                  /\ uploadStatuses[n].progress = 100
                  /\ uploadStatuses[n].chunksUploaded = uploadStatuses[n].totalChunks
                  /\ \E i \in 1..Len(parsedFiles) :
                        /\ parsedFiles[i].name = n
                        /\ uploadStatuses[n].totalChunks = Len(parsedFiles[i].chunks)
            /\ uploadStatuses[n].status # "uploading"

\* the attempts a step adds to the run's history (all of them when the step
\* starts the run)
NewAttempts ==
    IF upload.pc = "idle" THEN upload'.attempts
    ELSE SubSeq(upload'.attempts, Len(upload.attempts) + 1, Len(upload'.attempts))

\* the file names of the attempts of a
AttemptNames(a) == {upload'.filesToUpload[a[k].index].name : k \in 1..Len(a)}

\* C29: a handleUpload run that has passed its checks takes the parsed files
\* not yet uploaded, attempts them one after the other in list order and has
\* attempted all of them when it ends, failures or not; a file without chunks
\* gets status 'error' and no upsert request; the failure of an upsert changes
\* the status of its own file only (and of the files the loop then attempts);
\* and the run ends, with isUploading false.
C29_AttemptsEveryFile ==
    /\ [](upload.pc = "await" =>
            /\ isUploading
            /\ ~upload.disturbed =>
                  upload.filesToUpload = FilesToUpload(parsedFiles, upload.uploadedFiles)
            /\ \A k \in 1..Len(upload.attempts) : upload.attempts[k].index = k
            /\ Len(upload.attempts) = upload.i
            /\ upserts[Len(upserts)].result = "pending"
            /\ upserts[Len(upserts)].file = upload.filesToUpload[upload.i])
    /\ [][upload' # upload /\ upload'.pc = "idle" /\ drop' = drop =>
            /\ ~isUploading'
            /\ Len(upload'.attempts) = Len(upload'.filesToUpload)
            /\ \A k \in 1..Len(upload'.attempts) : upload'.attempts[k].index = k]_vars
    /\ [][upload'.attempts # upload.attempts =>
            /\ \A k \in 1..Len(NewAttempts) :
                  LET f == upload'.filesToUpload[NewAttempts[k].index]
                  IN /\ NewAttempts[k].upsert <=> Len(f.chunks) > 0
                     /\ (~NewAttempts[k].upsert
                           /\ \A j \in (k + 1)..Len(NewAttempts) :
                                 upload'.filesToUpload[NewAttempts[j].index].name # f.name)
                         => uploadStatuses'[f.name] = ErrorStatus("No chunks to upload")
            /\ Len(upserts') = Len(upserts) +
                  Cardinality({k \in 1..Len(NewAttempts) : NewAttempts[k].upsert})]_vars
    /\ [][(upload.pc = "await" /\ upserts'[Len(upserts)].result = "failed") =>
            LET own == upload.filesToUpload[upload.i].name
            IN /\ \A n \in FileNames :
                     uploadStatuses'[n] # uploadStatuses[n]
                        => n = own \/ n \in AttemptNames(NewAttempts)
               /\ own \notin AttemptNames(NewAttempts)
                     => uploadStatuses'[own] = ErrorStatus("Failed to upload")
               /\ uploadedFiles' = uploadedFiles]_vars
    /\ (upload.pc = "await") ~> (upload.pc = "idle" /\ ~isUploading)

\* C29 witness: a run over three files has ended after a failed upsert, a
\* file without chunks and a successful upsert, in that order.
C29_Witness ==
    /\ upload.pc = "idle" /\ ~isUploading
    /\ Len(upload.filesToUpload) = 3 /\ Len(upload.attempts) = 3
    /\ upload.attempts[1].upsert /\ ~upload.attempts[2].upsert /\ upload.attempts[3].upsert
    /\ Len(upserts) = 2
    /\ upserts[1].result = "failed" /\ upserts[2].result = "ok"

====
